---------------------------- MODULE Spec2Model ----------------------------
(***************************************************************************)
(* A model of sentimentanalysis.c: the CSV loader (loadDataset), the       *)
(* shuffle and 70/30 split (shuffleDataset, loadAndSplitDataset), the      *)
(* character embedding (tokenizeAndEmbed), the linear unit (denseLayer),   *)
(* the sigmoid and the thresholded accuracy (evaluate), and main, which    *)
(* runs them once on the training split and once on the test split.        *)
(*                                                                         *)
(* Representation.                                                         *)
(*   - A C string is the sequence of its bytes (0..255) before the NUL.    *)
(*   - A float that holds c / 255.0f is kept as the integer c (the         *)
(*     numerator); a weight is kept in thousandths; a score is kept in     *)
(*     units of 1 / (255 * 1000); a sigmoid output and an accuracy input   *)
(*     are kept in thousandths (600 is the float 0.6f).                    *)
(*   - The double product num_samples * 0.7 is computed bit-exactly        *)
(*     (53-bit significand, round to nearest even) on 18-bit limbs.        *)
(***************************************************************************)
EXTENDS Integers, Sequences, FiniteSets

VARIABLES
    pc,          \* position of the running function
    lines,       \* what fgets has returned so far, in order (history)
    dataset,     \* (*dataset)[0 .. count-1]
    count,       \* loadDataset: count
    capacity,    \* loadDataset: capacity
    slot,        \* (*dataset)[count].label: written or not, and its value
    num_samples, \* loadAndSplitDataset: num_samples
    loaded,      \* the dataset as loadDataset returned it (history)
    idx,         \* shuffleDataset: i
    trainSet, testSet, trainSize, testSize,
    charSigned,  \* whether plain char is signed in this build
    weights, biases,
    token_ids, outputs, labels,   \* per split: "train", "test"
    console,     \* the diagnostics and results printed so far
    arg, ret     \* a single function under test: its arguments, its result

loadVars  == <<lines, dataset, count, capacity, slot>>
splitVars == <<num_samples, loaded, idx, trainSet, testSet, trainSize, testSize>>
mainVars  == <<charSigned, weights, biases, token_ids, outputs, labels, console>>
callVars  == <<arg, ret>>
vars      == <<pc, loadVars, splitVars, mainVars, callVars>>

---------------------------------------------------------------------------
(* Program constants.                                                      *)

MAX_TOKENS == 1024
NUM_FEATURES == 1024
LINE_SIZE == 1024
INITIAL_CAPACITY == 1000

Comma == 44
Newline == 10

---------------------------------------------------------------------------
(* Bounds of the model.                                                    *)

MaxLines == 2     \* lines read by loadDataset in SpecLoad
MaxRecords == 3   \* lines read by loadDataset in Spec
MaxSamples == 100 \* records of the dataset whose split sizes are computed
MaxEval == 3      \* samples evaluate is called on
MaxDense == 2     \* samples denseLayer is called on

---------------------------------------------------------------------------
(* C strings.                                                              *)

Min(a, b) == IF a <= b THEN a ELSE b

Sub(s, a, b) == IF a > b THEN <<>> ELSE SubSeq(s, a, b)

\* custom_strlen: the number of bytes before the NUL.
custom_strlen(str) == Len(str)

\* strncpy(dst, src, n) followed by dst[n] = NUL: the first n bytes of src.
Strncpy(src, n) == Sub(src, 1, Min(Len(src), n))

\* strtok on the buffer s with the saved pointer at p (1-based; Len(s)+1 is
\* the terminating NUL): skip the delimiters, then run to the next delimiter,
\* which is overwritten by NUL; the saved pointer moves past it.
SkipDelims(s, p, delims) ==
    LET rest == { q \in p..Len(s) : s[q] \notin delims }
    IN  IF rest = {} THEN Len(s) + 1
        ELSE CHOOSE q \in rest : \A r \in rest : q <= r

TokenEnd(s, q, delims) ==
    LET ends == { e \in q..Len(s) : s[e] \in delims }
    IN  IF ends = {} THEN Len(s) + 1
        ELSE CHOOSE e \in ends : \A r \in ends : e <= r

strtok(s, p, delims) ==
    LET q == SkipDelims(s, p, delims)
    IN  IF q > Len(s)
        THEN [found |-> FALSE, tok |-> <<>>, next |-> Len(s) + 1]
        ELSE LET e == TokenEnd(s, q, delims)
             IN  [found |-> TRUE,
                  tok   |-> Sub(s, q, e - 1),
                  next  |-> Min(e + 1, Len(s) + 1)]

\* atoi: white space, an optional sign, then the leading decimal digits.
IsSpace(c) == c = 32 \/ (c >= 9 /\ c <= 13)
IsDigit(c) == c >= 48 /\ c <= 57

RECURSIVE AtoiSkip(_, _)
AtoiSkip(s, p) ==
    IF p <= Len(s) /\ IsSpace(s[p]) THEN AtoiSkip(s, p + 1) ELSE p

RECURSIVE AtoiDigits(_, _, _)
AtoiDigits(s, p, acc) ==
    IF p <= Len(s) /\ IsDigit(s[p])
    THEN AtoiDigits(s, p + 1, acc * 10 + (s[p] - 48))
    ELSE acc

atoi(s) ==
    LET p == AtoiSkip(s, 1)
        neg == p <= Len(s) /\ s[p] = 45
        signed == p <= Len(s) /\ (s[p] = 45 \/ s[p] = 43)
        v == AtoiDigits(s, IF signed THEN p + 1 ELSE p, 0)
    IN  IF neg THEN 0 - v ELSE v

---------------------------------------------------------------------------
(* loadDataset.                                                            *)

\* count++ outside the if (token): every labelled line is kept.
KeepsEveryLine(tx) == TRUE

\* if (token) { strncpy(...); count++; }: the record is kept when the last
\* strtok found a text.
KeepsRecord(tx) == tx.found

\* The loop body with one strtok(",") fewer: the text is the fifth field.
ParseLineFiveFields(line) ==
    LET t1 == strtok(line, 1, {Comma})
        t2 == strtok(line, t1.next, {Comma})
        t3 == strtok(line, t2.next, {Comma})
        t4 == strtok(line, t3.next, {Comma})
        tx == strtok(line, t4.next, {Newline})
    IN  IF ~t1.found
        THEN [labelled |-> FALSE, label |-> 0, stored |-> FALSE, text |-> <<>>]
        ELSE [labelled |-> TRUE,
              label    |-> atoi(t1.tok),
              stored   |-> KeepsRecord(tx),
              text     |-> Strncpy(tx.tok, MAX_TOKENS - 1)]

\* The body of the while loop for one line: the five strtok(",") calls, the
\* label written to (*dataset)[count], the strtok("\n") call for the text,
\* and what is stored.
ParseLine(line) ==
    LET t1 == strtok(line, 1, {Comma})
        t2 == strtok(line, t1.next, {Comma})
        t3 == strtok(line, t2.next, {Comma})
        t4 == strtok(line, t3.next, {Comma})
        t5 == strtok(line, t4.next, {Comma})
        tx == strtok(line, t5.next, {Newline})
    IN  IF ~t1.found
        THEN [labelled |-> FALSE, label |-> 0, stored |-> FALSE, text |-> <<>>]
        ELSE [labelled |-> TRUE,
              label    |-> atoi(t1.tok),
              stored   |-> KeepsRecord(tx),
              text     |-> Strncpy(tx.tok, MAX_TOKENS - 1)]

\* What fgets(line, sizeof(line), file) can return: at most LINE_SIZE - 1
\* bytes, not empty, with a line feed only as the last byte.
IsFgetsResult(l) ==
    /\ Len(l) >= 1
    /\ Len(l) <= LINE_SIZE - 1
    /\ \A p \in 1..Len(l) : l[p] = Newline => p = Len(l)
    /\ \A p \in 1..Len(l) : l[p] \in 1..255

EndsLine(l) == Len(l) >= 1 /\ l[Len(l)] = Newline

\* fgets returns a line short of the buffer without its line feed only at
\* the end of the file.
MoreInput == IF lines = <<>> THEN TRUE ELSE EndsLine(lines[Len(lines)])

LoadLine(LineSet, maxLines) ==
    /\ pc = "load"
    /\ Len(lines) < maxLines
    /\ MoreInput
    /\ \E line \in LineSet :
         LET r == ParseLine(line)
             \* (*dataset)[count].label = atoi(token), before the text is looked at
             written == IF r.labelled
                        THEN [written |-> TRUE, label |-> r.label]
                        ELSE slot
         IN  /\ IsFgetsResult(line)
             /\ lines' = Append(lines, line)
             /\ capacity' = IF count >= capacity THEN 2 * capacity ELSE capacity
             /\ IF r.stored
                THEN /\ dataset' = Append(dataset, [text  |-> r.text,
                                                    label |-> written.label])
                     /\ count' = count + 1
                     /\ slot' = [written |-> FALSE, label |-> 0]
                ELSE /\ dataset' = dataset
                     /\ count' = count
                     /\ slot' = written
    /\ pc' = pc
    /\ UNCHANGED <<splitVars, mainVars, callVars>>

\* fgets returns NULL: fclose and return count.
LoadEOF ==
    /\ pc = "load"
    /\ num_samples' = count
    /\ loaded' = dataset
    /\ pc' = "shuffle"
    /\ UNCHANGED <<loadVars, idx, trainSet, testSet, trainSize, testSize,
                   mainVars, callVars>>

---------------------------------------------------------------------------
(* What is printed: a line of text, or an accuracy with its value.         *)

Say(m) == [msg |-> m, kind |-> "text", correct |-> 0, num_samples |-> 0]
Report(m, r) ==
    [msg |-> m, kind |-> r.kind, correct |-> r.correct, num_samples |-> r.num_samples]

\* safe_malloc: printf("Error: Memory allocation failed for %s.\n", name); exit(1);
AllocError(name) ==
    [msg |-> "Error: Memory allocation failed", kind |-> name,
     correct |-> 0, num_samples |-> 0]

---------------------------------------------------------------------------
(* shuffleDataset and loadAndSplitDataset.                                 *)

\* The swap without the temporary: dataset[i] = dataset[j]; dataset[j] = dataset[i];
SwapNoTemp(d, i, j) == [d EXCEPT ![i + 1] = d[j + 1]]

\* Post temp = dataset[i]; dataset[i] = dataset[j]; dataset[j] = temp;
\* (i and j are 0-based, as in the code).
Swap(d, i, j) == [d EXCEPT ![i + 1] = d[j + 1], ![j + 1] = d[i + 1]]

\* One iteration of the for loop: j = rand() % num_samples can be any index.
ShuffleStep ==
    /\ pc = "shuffle"
    /\ idx < num_samples
    /\ \E j \in 0..(num_samples - 1) : dataset' = Swap(dataset, idx, j)
    /\ idx' = idx + 1
    /\ pc' = pc
    /\ UNCHANGED <<lines, count, capacity, slot, num_samples, loaded,
                   trainSet, testSet, trainSize, testSize, mainVars, callVars>>

\* The double 0.7 is 0x16666666666666 * 2^-53; its significand in three
\* limbs of 18 bits, least significant first.
Limb == 2 ^ 18
SeventyPercent == <<157286, 104857, 91750>>

RECURSIVE BitLen(_)
BitLen(x) == IF x = 0 THEN 0 ELSE 1 + BitLen(x \div 2)

\* (int)(n * 0.7): n converts to double exactly, the product is rounded to
\* 53 significant bits (to nearest, ties to even) and the cast truncates.
\* The product is p2 * 2^36 + p1 * 2^18 + p0, times 2^-53; for n < 2^13 the
\* bits rounded away all lie in p0.
TimesSeventyPercent(n) ==
    LET t0 == n * SeventyPercent[1]
        t1 == n * SeventyPercent[2] + (t0 \div Limb)
        t2 == n * SeventyPercent[3] + (t1 \div Limb)
        p0 == t0 % Limb
        p1 == t1 % Limb
        p2 == t2
        s  == BitLen(p2) - 17
    IN  IF s <= 0 THEN p2 \div (2 ^ 17)
        ELSE LET low  == p0 % (2 ^ s)
                 half == 2 ^ (s - 1)
                 odd  == (p0 \div (2 ^ s)) % 2 = 1
                 up   == low > half \/ (low = half /\ odd)
                 q0   == (p0 - low) + (IF up THEN 2 ^ s ELSE 0)
                 q1   == p1 + (q0 \div Limb)
                 q2   == p2 + (q1 \div Limb)
             IN  q2 \div (2 ^ 17)

\* *trainSize = (int)(num_samples * 0.7); *testSize = num_samples - *trainSize;
SplitSizes(n) ==
    LET tr == TimesSeventyPercent(n)
    IN  [trainSize |-> tr, testSize |-> n - tr]

\* The rest of loadAndSplitDataset after the shuffle. malloc(0) may return
\* NULL, and safe_malloc then reports the failure and exits; an allocation
\* of a positive size is taken to succeed.
Split ==
    /\ pc = "shuffle"
    /\ idx >= num_samples
    /\ LET sz == SplitSizes(num_samples)
       IN  /\ trainSize' = sz.trainSize
           /\ testSize' = sz.testSize
           /\ \E nullOnZero \in BOOLEAN :
                IF nullOnZero /\ (sz.trainSize = 0 \/ sz.testSize = 0)
                THEN /\ console' = Append(console,
                                       IF sz.trainSize = 0
                                       THEN AllocError("trainSet")
                                       ELSE AllocError("testSet"))
                     /\ pc' = "exit1"
                     /\ UNCHANGED <<dataset, trainSet, testSet>>
                ELSE /\ trainSet' = Sub(dataset, 1, sz.trainSize)
                     /\ testSet' = Sub(dataset, sz.trainSize + 1,
                                       sz.trainSize + sz.testSize)
                     /\ dataset' = <<>>
                     /\ console' = Append(console, Say("Loading and Splitting Time"))
                     /\ pc' = "main_check"
    /\ UNCHANGED <<lines, count, capacity, slot, num_samples, loaded, idx,
                   charSigned, weights, biases, token_ids, outputs, labels,
                   callVars>>

---------------------------------------------------------------------------
(* The numeric stages. A float array is kept as its size, the value its   *)
(* block held when it was allocated (fill) and the entries written since;  *)
(* an entry that was never written still holds the fill.                   *)

\* The block safe_malloc returns is not initialised: it holds whatever the
\* heap held. The model lets every entry hold the same value g.
Malloc(size, g) == [size |-> size, fill |-> g, written |-> <<>>]
GarbageVals == { 0, 77 }

\* a[q] for q inside the block; oob is what a read past its end yields.
ReadAt(a, q, oob) ==
    IF q >= a.size THEN oob
    ELSE IF q \in DOMAIN a.written THEN a.written[q]
    ELSE a.fill

\* (float)(dataset[i].text[j]) / 255.0f, as the numerator: plain char is
\* signed or unsigned as the build has it, and a signed char holds a byte
\* above 127 as byte - 256.
CharToFloat(c, sgn) == IF sgn /\ c >= 128 THEN c - 256 ELSE c

\* tokenizeAndEmbed: token_ids[i * MAX_TOKENS + j] is written for every
\* i < num_samples and j < custom_strlen(text_i); nothing else is.
tokenizeAndEmbed(ds, tok, n, sgn) ==
    LET cells == { <<i, j>> \in (0..(n - 1)) \X (0..(MAX_TOKENS - 1)) :
                     j < custom_strlen(ds[i + 1].text) }
        at == { c[1] * MAX_TOKENS + c[2] : c \in cells }
    IN  [tok EXCEPT !.written =
            [q \in (DOMAIN tok.written) \cup at |->
                IF q \in at
                THEN CharToFloat(ds[(q \div MAX_TOKENS) + 1].text[(q % MAX_TOKENS) + 1], sgn)
                ELSE tok.written[q]]]

\* sqrt(2.0f / num_features) in thousandths.
ISqrt(x) == CHOOSE r \in 0..1500 : r * r <= x /\ x < (r + 1) * (r + 1)
XavierScale(num_features) == ISqrt(2000000 \div num_features)

\* init_weights: weights[i] = ((float)rand() / RAND_MAX) * sqrt(2 / n) for
\* every i < n * n; rand() / RAND_MAX, in thousandths, is r0 at the even
\* and r1 at the odd indices.
RandFracs == { 0, 1000 }
init_weights(num_features, r0, r1) ==
    [size |-> num_features * num_features,
     even |-> (r0 * XavierScale(num_features)) \div 1000,
     odd  |-> (r1 * XavierScale(num_features)) \div 1000]

WeightAt(w, k) == IF k % 2 = 0 THEN w.even ELSE w.odd

RECURSIVE Dot(_, _, _, _, _, _)
Dot(inputs, w, base, lo, hi, oob) ==
    IF lo > hi THEN 0
    ELSE IF lo = hi THEN ReadAt(inputs, base + lo, oob) * WeightAt(w, lo)
    ELSE LET mid == (lo + hi) \div 2
         IN  Dot(inputs, w, base, lo, mid, oob) + Dot(inputs, w, base, mid + 1, hi, oob)

\* denseLayer: outputs[i] = biases[0] + sum over k < embedding_size of
\* inputs[i * embedding_size + k] * weights[k]. No argument is checked.
denseLayer(inputs, w, b, n, embedding_size, oob) ==
    [i \in 0..(n - 1) |->
        ReadAt(b, 0, oob) * 255
        + Dot(inputs, w, i * embedding_size, 0, embedding_size - 1, oob)]

\* 1.0f / (1.0f + expf(-x)) in thousandths, rounded down to the entries of
\* a table of <<least score, value>>; 103394 is the least score whose
\* sigmoid exceeds 0.6f, and from 17.0 on the float result is 1.0f.
SigmoidTable ==
    << <<-1761227, 1>>, <<-510000, 119>>, <<-255000, 268>>, <<-103393, 400>>,
       <<0, 500>>, <<103394, 601>>, <<255000, 731>>, <<510000, 880>>,
       <<1761227, 999>>, <<4335000, 1000>> >>

Sigmoid(x) ==
    LET below == { k \in 1..Len(SigmoidTable) : SigmoidTable[k][1] <= x }
    IN  IF below = {} THEN 0
        ELSE SigmoidTable[CHOOSE k \in below : \A m \in below : m <= k][2]

\* sigmoidActivation: in place, on the first size entries.
sigmoidActivation(out, size) ==
    [i \in DOMAIN out |-> IF i < size THEN Sigmoid(out[i]) ELSE out[i]]

\* The decision threshold 0.6f, in thousandths.
THRESHOLD == 600
POSITIVE == 4
NEGATIVE == 0

\* The threshold test with >= for >.
PredictedLabelAtLeast(o) == IF o >= THRESHOLD THEN POSITIVE ELSE NEGATIVE

\* int predicted_label = outputs[i] > 0.6f ? 4 : 0;
PredictedLabel(o) == IF o > THRESHOLD THEN POSITIVE ELSE NEGATIVE

RECURSIVE CountCorrect(_, _, _, _)
CountCorrect(out, lab, i, n) ==
    IF i >= n THEN 0
    ELSE (IF PredictedLabel(out[i]) = lab[i] THEN 1 ELSE 0)
         + CountCorrect(out, lab, i + 1, n)

\* evaluate: return (float)correct / num_samples, kept as the pair; with
\* num_samples = 0 the float division 0.0f / 0.0f gives NaN.
evaluate(out, lab, n) ==
    [kind        |-> IF n = 0 THEN "nan" ELSE "value",
     correct     |-> CountCorrect(out, lab, 0, n),
     num_samples |-> n]

---------------------------------------------------------------------------
(* main.                                                                   *)

SetOf(sp)  == IF sp = "train" THEN trainSet ELSE testSet
SizeOf(sp) == IF sp = "train" THEN trainSize ELSE testSize
Splits == { "train", "test" }

PcPrepare  == [train |-> "prepare_train",  test |-> "prepare_test"]
PcTokenize == [train |-> "tokenize_train", test |-> "tokenize_test"]
PcDense    == [train |-> "dense_train",    test |-> "dense_test"]
PcSigmoid  == [train |-> "sigmoid_train",  test |-> "sigmoid_test"]
PcEvaluate == [train |-> "evaluate_train", test |-> "evaluate_test"]

\* The test on the whole dataset only: if (num_samples == 0)
NoSamplesAtAll == num_samples = 0

\* if (trainSize == 0 || testSize == 0)
NoSamples == trainSize = 0 \/ testSize = 0

\* ... { printf("Error: No samples found in dataset.\n"); return 1; }
MainCheck ==
    /\ pc = "main_check"
    /\ IF NoSamples
       THEN /\ console' = Append(console, Say("Error: No samples found in dataset."))
            /\ pc' = "exit1"
       ELSE /\ console' = Append(console, Say("Loaded training and test samples."))
            /\ pc' = PcPrepare["train"]
    /\ UNCHANGED <<loadVars, splitVars, charSigned, weights, biases,
                   token_ids, outputs, labels, callVars>>

\* The labels and the buffers of one split (of the outputs block the first
\* num_samples entries, the ones used); for the training split also the
\* weights and the biases, every one set to 0.0f, which the test split shares.
Prepare(sp) ==
    /\ pc = PcPrepare[sp]
    /\ labels' = [labels EXCEPT ![sp] =
                    [i \in 0..(SizeOf(sp) - 1) |-> SetOf(sp)[i + 1].label]]
    /\ \E g \in GarbageVals :
         /\ token_ids' = [token_ids EXCEPT ![sp] = Malloc(SizeOf(sp) * MAX_TOKENS, g)]
         /\ outputs' = [outputs EXCEPT ![sp] = [i \in 0..(SizeOf(sp) - 1) |-> g]]
    /\ IF sp = "train"
       THEN /\ \E r0 \in RandFracs, r1 \in RandFracs :
                 weights' = init_weights(NUM_FEATURES, r0, r1)
            /\ biases' = Malloc(NUM_FEATURES, 0)
       ELSE UNCHANGED <<weights, biases>>
    /\ pc' = PcTokenize[sp]
    /\ UNCHANGED <<loadVars, splitVars, charSigned, console, callVars>>

Tokenize(sp) ==
    /\ pc = PcTokenize[sp]
    /\ token_ids' = [token_ids EXCEPT ![sp] =
                       tokenizeAndEmbed(SetOf(sp), token_ids[sp], SizeOf(sp), charSigned)]
    /\ console' = Append(console, Say("Tokenization Time"))
    /\ pc' = PcDense[sp]
    /\ UNCHANGED <<loadVars, splitVars, charSigned, weights, biases,
                   outputs, labels, callVars>>

Dense(sp) ==
    /\ pc = PcDense[sp]
    /\ outputs' = [outputs EXCEPT ![sp] =
                     denseLayer(token_ids[sp], weights, biases, SizeOf(sp),
                                NUM_FEATURES, 0)]
    /\ console' = Append(console, Say("Dense Layer Time"))
    /\ pc' = PcSigmoid[sp]
    /\ UNCHANGED <<loadVars, splitVars, charSigned, weights, biases,
                   token_ids, labels, callVars>>

Activate(sp) ==
    /\ pc = PcSigmoid[sp]
    /\ outputs' = [outputs EXCEPT ![sp] = sigmoidActivation(outputs[sp], SizeOf(sp))]
    /\ console' = Append(console, Say("Sigmoid Activation Time"))
    /\ pc' = PcEvaluate[sp]
    /\ UNCHANGED <<loadVars, splitVars, charSigned, weights, biases,
                   token_ids, labels, callVars>>

Evaluate(sp) ==
    /\ pc = PcEvaluate[sp]
    /\ console' = console \o
                  << Say("Evaluation Time"),
                     Report(IF sp = "train" THEN "Training set Accuracy"
                            ELSE "Test set Accuracy",
                            evaluate(outputs[sp], labels[sp], SizeOf(sp))) >>
    /\ pc' = IF sp = "train" THEN PcPrepare["test"] ELSE "finish"
    /\ UNCHANGED <<loadVars, splitVars, charSigned, weights, biases,
                   token_ids, outputs, labels, callVars>>

\* The buffers are freed and main returns 0.
Finish ==
    /\ pc = "finish"
    /\ console' = Append(console, Say("Program completed."))
    /\ trainSet' = <<>>
    /\ testSet' = <<>>
    /\ weights' = <<>>
    /\ biases' = <<>>
    /\ token_ids' = [sp \in Splits |-> <<>>]
    /\ outputs' = [sp \in Splits |-> <<>>]
    /\ labels' = [sp \in Splits |-> <<>>]
    /\ pc' = "exit0"
    /\ UNCHANGED <<loadVars, num_samples, loaded, idx, trainSize, testSize,
                   charSigned, callVars>>

---------------------------------------------------------------------------
(* The lines the loader is run on.                                         *)

RECURSIVE Mid(_)
Mid(k) == IF k = 0 THEN <<>> ELSE <<Comma, 120>> \o Mid(k - 1)

LabelToks == { <<52>>, <<97>> }
MidCounts == { 0, 3, 4, 5 }
Tails == { <<>>, <<Comma>>, <<Comma, 116>>, <<Comma, 116, Comma, 117>> }
OddLines == { <<Newline>>, <<Comma, Comma, Comma>>,
              <<48>> \o Mid(4) \o <<Comma, 116, Newline>>,
              <<Comma, 52, Comma, Comma, 120, Comma, 120, Comma, 120,
                Comma, 120, Comma, Comma, 116, Newline>>,
              <<32, 45, 52, 97, Comma, 120, Comma, 120, Comma, 120,
                Comma, 120, Comma, 195, 169, Newline>> }

\* Well-formed records of the data file (label, id, date, flag, user, text)
\* with the texts "ab" and the two bytes of a UTF-8 letter, and a line that
\* stops after five fields.
PipelineLines ==
    { <<48>> \o Mid(4) \o <<Comma, 97, 98, Newline>>,
      <<52>> \o Mid(4) \o <<Comma, 195, 169, Newline>>,
      <<52>> \o Mid(3) \o <<Comma, 116, Newline>> }

LoadLines ==
    { l \o Mid(k) \o t \o nl :
        l \in LabelToks, k \in MidCounts, t \in Tails,
        nl \in { <<>>, <<Newline>> } } \cup OddLines

---------------------------------------------------------------------------
(* The whole program, and loadDataset alone.                               *)

NoCall == [f |-> "none"]

Boot ==
    /\ pc = "load"
    /\ lines = <<>>
    /\ dataset = <<>>
    /\ count = 0
    /\ capacity = INITIAL_CAPACITY
    /\ slot = [written |-> FALSE, label |-> 0]
    /\ num_samples = 0
    /\ loaded = <<>>
    /\ idx = 0
    /\ trainSet = <<>>
    /\ testSet = <<>>
    /\ trainSize = 0
    /\ testSize = 0
    /\ weights = <<>>
    /\ biases = <<>>
    /\ token_ids = [sp \in Splits |-> <<>>]
    /\ outputs = [sp \in Splits |-> <<>>]
    /\ labels = [sp \in Splits |-> <<>>]
    /\ console = <<>>
    /\ arg = NoCall
    /\ ret = NoCall

Init == Boot /\ charSigned \in BOOLEAN

Next ==
    \/ LoadLine(PipelineLines, MaxRecords)
    \/ LoadEOF
    \/ ShuffleStep
    \/ Split
    \/ MainCheck
    \/ \E sp \in Splits : Prepare(sp)
    \/ \E sp \in Splits : Tokenize(sp)
    \/ \E sp \in Splits : Dense(sp)
    \/ \E sp \in Splits : Activate(sp)
    \/ \E sp \in Splits : Evaluate(sp)
    \/ Finish

Spec == Init /\ [][Next]_vars

InitLoad == Boot /\ charSigned = TRUE

NextLoad == LoadLine(LoadLines, MaxLines) \/ LoadEOF

SpecLoad == InitLoad /\ [][NextLoad]_vars

---------------------------------------------------------------------------
(* Single functions, called once on arguments drawn from bounded sets.     *)

Idle ==
    /\ lines = <<>>
    /\ dataset = <<>>
    /\ count = 0
    /\ capacity = INITIAL_CAPACITY
    /\ slot = [written |-> FALSE, label |-> 0]
    /\ num_samples = 0
    /\ loaded = <<>>
    /\ idx = 0
    /\ trainSet = <<>>
    /\ testSet = <<>>
    /\ trainSize = 0
    /\ testSize = 0
    /\ weights = <<>>
    /\ biases = <<>>
    /\ token_ids = [sp \in Splits |-> <<>>]
    /\ outputs = [sp \in Splits |-> <<>>]
    /\ labels = [sp \in Splits |-> <<>>]
    /\ console = <<>>
    /\ ret = NoCall

\* The split sizes of loadAndSplitDataset for a dataset of n records.
InitSplit ==
    /\ Idle
    /\ charSigned = TRUE
    /\ pc = "call_split"
    /\ \E n \in 0..MaxSamples : arg = [num_samples |-> n]

CallSplit ==
    /\ pc = "call_split"
    /\ ret' = SplitSizes(arg.num_samples)
    /\ pc' = "split_done"
    /\ UNCHANGED <<loadVars, splitVars, mainVars, arg>>

SpecSplit == InitSplit /\ [][CallSplit]_vars

\* evaluate on any outputs and labels of any length up to MaxEval.
OutputVals == { 0, 500, 600, 601, 1000 }
LabelVals == { 0, 2, 4 }

InitEvaluate ==
    /\ Idle
    /\ charSigned = TRUE
    /\ pc = "call_evaluate"
    /\ \E n \in 0..MaxEval :
         \E o \in [0..(n - 1) -> OutputVals], l \in [0..(n - 1) -> LabelVals] :
            arg = [outputs |-> o, labels |-> l, num_samples |-> n]

CallEvaluate ==
    /\ pc = "call_evaluate"
    /\ ret' = evaluate(arg.outputs, arg.labels, arg.num_samples)
    /\ pc' = "evaluate_done"
    /\ UNCHANGED <<loadVars, splitVars, mainVars, arg>>

SpecEvaluate == InitEvaluate /\ [][CallEvaluate]_vars

\* denseLayer on the embedding of a small dataset, whose rows are MAX_TOKENS
\* wide, with any embedding_size around that width.
DenseTexts == { <<97, 98>>, <<195, 169>>, <<116>> }
EmbeddingSizes == { MAX_TOKENS - 1, MAX_TOKENS, MAX_TOKENS + 1 }

InitDense ==
    /\ Idle
    /\ charSigned \in BOOLEAN
    /\ pc = "call_dense"
    /\ \E n \in 1..MaxDense :
         \E t \in [1..n -> DenseTexts], g \in GarbageVals,
            r0 \in RandFracs, r1 \in RandFracs, e \in EmbeddingSizes :
            arg = [inputs |-> tokenizeAndEmbed([i \in 1..n |-> [text |-> t[i], label |-> 0]],
                                               Malloc(n * MAX_TOKENS, g), n, charSigned),
                   weights |-> init_weights(NUM_FEATURES, r0, r1),
                   biases |-> Malloc(NUM_FEATURES, 0),
                   num_samples |-> n,
                   embedding_size |-> e]

\* A read past the end of inputs is undefined: it yields some value, or the
\* process is killed.
ReadsPastEnd(a) == a.num_samples * a.embedding_size > a.inputs.size

CallDense ==
    /\ pc = "call_dense"
    /\ \E oob \in GarbageVals, killed \in BOOLEAN :
         ret' = IF killed /\ ReadsPastEnd(arg)
                THEN [status |-> "killed", outputs |-> <<>>]
                ELSE [status |-> "computed",
                      outputs |-> denseLayer(arg.inputs, arg.weights, arg.biases,
                                             arg.num_samples, arg.embedding_size, oob)]
    /\ pc' = "dense_done"
    /\ UNCHANGED <<loadVars, splitVars, mainVars, arg>>

SpecDense == InitDense /\ [][CallDense]_vars

---------------------------------------------------------------------------
(* The claims.                                                             *)

\* C1: for a dataset of N records the split sizes are trainSize =
\* floor(0.7 * N) = floor(7 * N / 10) and testSize = N - trainSize.
C1_SplitIsFloorOfSeventyPercent ==
    pc = "split_done" =>
        /\ ret.trainSize = (7 * arg.num_samples) \div 10
        /\ ret.testSize = arg.num_samples - ret.trainSize
        /\ ret.trainSize + ret.testSize = arg.num_samples

\* C7: evaluate called with num_samples = 0 ends in an error; it returns
\* neither 0 nor NaN.
C7_ZeroSamplesIsAnError ==
    (pc = "evaluate_done" /\ arg.num_samples = 0) => ret.kind = "error"

\* C9: for N >= 1 evaluate returns m / N, m the number of samples whose
\* predicted class (4 exactly when the output exceeds 0.6, else 0) is the
\* label; the result lies in [0, 1], is 1 when all match and 0 when none
\* does, and with every output 0.5 it is the share of the labels 0.
C9_AccuracyIsShareOfMatches ==
    (pc = "evaluate_done" /\ arg.num_samples >= 1) =>
        LET N == arg.num_samples
            match == { i \in 0..(N - 1) :
                         (IF arg.outputs[i] > 600 THEN 4 ELSE 0) = arg.labels[i] }
        IN  /\ ret.kind = "value"
            /\ ret.correct = Cardinality(match)
            /\ ret.num_samples = N
            /\ 0 <= ret.correct /\ ret.correct <= ret.num_samples
            /\ (match = 0..(N - 1)) => ret.correct = ret.num_samples
            /\ (match = {}) => ret.correct = 0
            /\ (\A i \in 0..(N - 1) : arg.outputs[i] = 500) =>
                   ret.correct = Cardinality({ i \in 0..(N - 1) : arg.labels[i] = 0 })

\* evaluate has returned 2 / 3 on three samples, one of them right at the
\* threshold.
C9_Witness ==
    /\ pc = "evaluate_done"
    /\ arg.num_samples = 3
    /\ ret.correct = 2
    /\ \E i \in 0..2 : arg.outputs[i] = 600 /\ arg.labels[i] = 0

\* C8: denseLayer rejects a call whose embedding_size differs from the row
\* width MAX_TOKENS of its inputs, before it computes anything.
C8_WidthMismatchIsRejected ==
    (pc = "dense_done" /\ arg.embedding_size # MAX_TOKENS) => ret.status = "rejected"

\* The entry of token_ids for sample i, position j of a split.
TokenAt(sp, i, j) == ReadAt(token_ids[sp], i * MAX_TOKENS + j, 0)

TextOf(sp, i) == SetOf(sp)[i + 1].text

\* C4: after tokenizeAndEmbed has run on a split, every position from
\* len(text_i) to MAX_TOKENS - 1 of every sample i holds exactly 0, whatever
\* the buffer held before.
C4_PaddingIsZero ==
    \A sp \in Splits :
        pc = PcDense[sp] =>
            \A i \in 0..(SizeOf(sp) - 1) :
                \A j \in Len(TextOf(sp, i))..(MAX_TOKENS - 1) : TokenAt(sp, i, j) = 0

\* C5: after tokenizeAndEmbed, position j < len(text_i) of sample i holds
\* ord(text_i[j]) / 255 with ord the byte value 0..255, so it lies in [0, 1].
C5_EmbeddingIsByteOver255 ==
    \A sp \in Splits :
        pc = PcDense[sp] =>
            \A i \in 0..(SizeOf(sp) - 1) :
                \A j \in 0..(Len(TextOf(sp, i)) - 1) :
                    /\ TokenAt(sp, i, j) = TextOf(sp, i)[j + 1]
                    /\ TokenAt(sp, i, j) >= 0
                    /\ TokenAt(sp, i, j) <= 255

StagePcs ==
    { PcPrepare[sp] : sp \in Splits } \cup { PcTokenize[sp] : sp \in Splits }
    \cup { PcDense[sp] : sp \in Splits } \cup { PcSigmoid[sp] : sp \in Splits }
    \cup { PcEvaluate[sp] : sp \in Splits } \cup { "finish", "exit0" }

IsError(m) ==
    m.msg \in { "Error: No samples found in dataset.", "Error: Memory allocation failed" }

\* C6: when the loaded dataset is empty or a split has no sample, the run
\* ends with an error message before any stage runs and reports no
\* accuracy; no stage, evaluate included, runs on a split of zero samples.
C6_EmptySplitEndsInError ==
    /\ (pc \notin { "load", "shuffle" } /\ (num_samples = 0 \/ trainSize = 0 \/ testSize = 0)) =>
          /\ pc \in { "main_check", "exit1" }
          /\ \A k \in 1..Len(console) : console[k].kind \in { "text", "trainSet", "testSet" }
          /\ \A k \in 1..Len(console) :
                console[k].msg \notin { "Tokenization Time", "Dense Layer Time",
                                        "Sigmoid Activation Time", "Evaluation Time" }
          /\ pc = "exit1" => IsError(console[Len(console)])
    /\ \A sp \in Splits :
          pc \in { PcTokenize[sp], PcDense[sp], PcSigmoid[sp], PcEvaluate[sp] } =>
              SizeOf(sp) > 0
    /\ pc \in StagePcs => (trainSize > 0 /\ testSize > 0)

\* One record was loaded, the training split is empty and main has ended
\* with its error message.
C6_Witness ==
    /\ pc = "exit1"
    /\ num_samples = 1
    /\ trainSize = 0
    /\ testSize = 1
    /\ console[Len(console)].msg = "Error: No samples found in dataset."

\* The number of times record r occurs in the sequence q.
Occurrences(q, r) == Cardinality({ k \in 1..Len(q) : q[k] = r })

IsPermutation(a, b) ==
    /\ Len(a) = Len(b)
    /\ \A k \in 1..Len(b) : Occurrences(a, b[k]) = Occurrences(b, b[k])

\* C10: whatever shuffleDataset draws, the train set followed by the test
\* set is a permutation of the loaded records, text and label together.
C10_SplitIsPermutation ==
    /\ pc = "shuffle" => IsPermutation(dataset, loaded)
    /\ pc \in ({ "main_check" } \cup (StagePcs \ { "exit0" })) =>
          /\ IsPermutation(trainSet \o testSet, loaded)
          /\ Len(trainSet) = trainSize
          /\ Len(testSet) = testSize

\* Three records were loaded, the first unlike the others; the shuffle has
\* moved it to the end and the split has put it in the test set.
C10_Witness ==
    /\ pc = "main_check"
    /\ Len(loaded) = 3
    /\ loaded[1] # loaded[2] /\ loaded[1] # loaded[3]
    /\ trainSet \o testSet # loaded
    /\ testSet = <<loaded[1]>>

\* A line without its line feed.
Body(l) == IF EndsLine(l) THEN Sub(l, 1, Len(l) - 1) ELSE l

\* The comma-separated fields of b, the empty ones included.
RECURSIVE RawFields(_)
RawFields(b) ==
    LET cs == { p \in 1..Len(b) : b[p] = Comma }
    IN  IF cs = {} THEN <<b>>
        ELSE LET p == CHOOSE c \in cs : \A d \in cs : c <= d
             IN  <<Sub(b, 1, p - 1)>> \o RawFields(Sub(b, p + 1, Len(b)))

AllDigits(f) == Len(f) >= 1 /\ \A k \in 1..Len(f) : IsDigit(f[k])

RECURSIVE DecimalValue(_)
DecimalValue(f) ==
    IF f = <<>> THEN 0
    ELSE 10 * DecimalValue(Sub(f, 1, Len(f) - 1)) + (f[Len(f)] - 48)

IsLetter(c) == c >= 97 /\ c <= 122

\* The last line read was kept as the record [text, label].
LastLineStoredAs(text, label) ==
    /\ count >= 1
    /\ Len(dataset) = count
    /\ ~slot.written
    /\ dataset[count].text = text
    /\ dataset[count].label = label

\* C2 as stated: a line of exactly five comma-separated fields is stored
\* with field 1 as the label and field 5 as the text.
C2_FifthFieldIsText ==
    lines # <<>> =>
        LET f == RawFields(Body(lines[Len(lines)]))
        IN  (Len(f) = 5 /\ (\A k \in 1..5 : f[k] # <<>>) /\ AllDigits(f[1])) =>
                LastLineStoredAs(f[5], DecimalValue(f[1]))

\* C2 as the code has it: a line whose first five comma-separated fields
\* are not empty and are followed by a comma and a text is stored with field
\* 1 as the label (its decimal value; 0 for a field that starts with a
\* letter) and, as the text, all that follows the fifth comma, commas
\* included, up to the line feed; fields 2 to 5 are skipped.
C2_TextFollowsFifthComma ==
    lines # <<>> =>
        LET b == Body(lines[Len(lines)])
            f == RawFields(b)
            from == Len(f[1]) + Len(f[2]) + Len(f[3]) + Len(f[4]) + Len(f[5]) + 6
        IN  (Len(f) >= 6 /\ (\A k \in 1..5 : f[k] # <<>>) /\ from <= Len(b)) =>
                /\ AllDigits(f[1]) => LastLineStoredAs(Sub(b, from, Len(b)), DecimalValue(f[1]))
                /\ IsLetter(f[1][1]) => LastLineStoredAs(Sub(b, from, Len(b)), 0)

\* The line 4,x,x,x,x,t,u was read and kept with the text t,u.
C2_Witness ==
    /\ lines # <<>>
    /\ lines[Len(lines)] = <<52>> \o Mid(4) \o <<Comma, 116, Comma, 117, Newline>>
    /\ LastLineStoredAs(<<116, Comma, 117>>, 4)

\* Where the fields of b that are not empty start.
FieldStarts(b) ==
    { p \in 1..Len(b) : b[p] # Comma /\ (IF p = 1 THEN TRUE ELSE b[p - 1] = Comma) }

\* Where the text of b starts: after the comma that ends its fifth
\* non-empty field; 0 when there is none.
TextStart(b) ==
    LET fifth == { p \in FieldStarts(b) :
                     Cardinality({ q \in FieldStarts(b) : q <= p }) = 5 }
        after == { c \in 1..Len(b) : b[c] = Comma /\ \E p \in fifth : c > p }
    IN  IF after = {} THEN 0
        ELSE (CHOOSE c \in after : \A d \in after : c <= d) + 1

HasTextField(l) == TextStart(Body(l)) # 0 /\ TextStart(Body(l)) <= Len(Body(l))

TextField(l) == Sub(Body(l), TextStart(Body(l)), Len(Body(l)))

FirstField(l) ==
    LET b == Body(l)
        p == CHOOSE q \in FieldStarts(b) : \A r \in FieldStarts(b) : q <= r
        cs == { c \in p..Len(b) : b[c] = Comma }
    IN  Sub(b, p, (CHOOSE c \in cs : \A d \in cs : c <= d) - 1)

===========================================================================
